---- MODULE Spec2Model ----
\* Model of the part9 sonnet search tool: the span finder, the document
\* matcher, the result combiner, the highlighter (src/part9/models.py) and the
\* query evaluation loop of the CLI (src/part9/app.py).
\*
\* Strings are sequences of one-character strings.  Python lists that are
\* mutated in place through aliases (the span lists of LineMatch objects, and
\* the title span lists) live in the heap `lists` and are referred to by index;
\* SearchResult objects live in the heap `objs`.  A LineMatch's fields are never
\* reassigned after construction, so a LineMatch is a record holding the index
\* of its (shared, mutable) span list.
EXTENDS Integers, Sequences, FiniteSets, TLC

VARIABLES
    sonnets,            \* app.py main: the loaded corpus, a sequence of Sonnet
    search_mode,        \* config.search_mode
    pc,                 \* position of main: "prompt", "word", "fold"
    words,              \* raw.split()
    w,                  \* 1-based index of the next word of the for loop
    i,                  \* 1-based index of the inner for loop over sonnets
    results,            \* ids of the SearchResults of the current word
    combined_results,   \* ids of the cumulative SearchResults
    matched,            \* print_results: ids of the results displayed last
    objs,               \* heap of SearchResult objects
    lists,              \* heap of span lists
    call,               \* record of the last library call (observation only)
    indiv,              \* per word, per sonnet: matches returned by search_for
    text,               \* argument of the pure function under test
    arg,                \* its second argument (pattern, or spans and mode)
    out                 \* its result

vars == <<sonnets, search_mode, pc, words, w, i, results, combined_results,
          matched, objs, lists, call, indiv, text, arg, out>>

driverVars == <<sonnets, search_mode, pc, words, w, i, results,
                combined_results, matched, indiv>>
heapVars == <<objs, lists, call>>
pureVars == <<text, arg, out>>

-----------------------------------------------------------------------------
\* Bounds of the model.
MaxLen == 3         \* longest text / pattern given to the pure functions
MaxSpans == 2       \* longest span list given to ansi_highlight
MaxLines == 2       \* most lines of a generated document
MaxObjs == 3        \* most SearchResults allocated in the library scenario
MaxDocs == 2        \* most sonnets in the corpus of the CLI scenario
MaxWords == 3       \* most words in a query

Chars == {"a", "b", "A"}

Min(x, y) == IF x < y THEN x ELSE y
Max(x, y) == IF x > y THEN x ELSE y

SeqsUpTo(S, n) == UNION {[1..k -> S] : k \in 0..n}

\* str.lower() on the model's alphabet.
LowerChar(c) == CASE c = "A" -> "a" [] c = "B" -> "b" [] OTHER -> c
Lower(s) == [k \in 1..Len(s) |-> LowerChar(s[k])]

\* Python slice s[a:b] for non-negative a, b (indices clamp to len(s)).
Slice(s, a, b) ==
    LET a2 == Min(a, Len(s))
        b2 == Min(b, Len(s))
    IN  IF a2 >= b2 THEN <<>> ELSE SubSeq(s, a2 + 1, b2)

-----------------------------------------------------------------------------
\* Sonnet.find_spans

RECURSIVE find_spans_loop(_, _, _, _)
find_spans_loop(t, pattern, k, spans) ==
    IF k >= Len(t) - Len(pattern) + 1
    THEN spans
    ELSE find_spans_loop(t, pattern, k + 1,
            IF Slice(t, k, k + Len(pattern)) = pattern
            THEN Append(spans, <<k, k + Len(pattern)>>)
            ELSE spans)

\* Mutant: resumes the scan after the end of a match (no overlapping matches).
RECURSIVE find_spans_skip_loop(_, _, _, _)
find_spans_skip_loop(t, pattern, k, spans) ==
    IF k >= Len(t) - Len(pattern) + 1
    THEN spans
    ELSE IF Slice(t, k, k + Len(pattern)) = pattern
         THEN find_spans_skip_loop(t, pattern, k + Len(pattern),
                                   Append(spans, <<k, k + Len(pattern)>>))
         ELSE find_spans_skip_loop(t, pattern, k + 1, spans)

find_spans_skip(t, pattern) ==
    IF pattern = <<>> THEN <<>> ELSE find_spans_skip_loop(t, pattern, 0, <<>>)

find_spans(t, pattern) ==
    IF pattern = <<>> THEN <<>> ELSE find_spans_loop(t, pattern, 0, <<>>)

-----------------------------------------------------------------------------
\* sorted() on a list of (start, end) tuples: lexicographic, stable.

TupleLess(p, q) == p[1] < q[1] \/ (p[1] = q[1] /\ p[2] < q[2])

RECURSIVE InsertSpan(_, _)
InsertSpan(sorted, x) ==
    IF sorted = <<>> THEN <<x>>
    ELSE IF TupleLess(x, sorted[Len(sorted)])
         THEN Append(InsertSpan(SubSeq(sorted, 1, Len(sorted) - 1), x),
                     sorted[Len(sorted)])
         ELSE Append(sorted, x)

RECURSIVE SortedSpans(_)
SortedSpans(s) ==
    IF s = <<>> THEN <<>>
    ELSE InsertSpan(SortedSpans(SubSeq(s, 1, Len(s) - 1)), s[Len(s)])

-----------------------------------------------------------------------------
\* SearchResult.ansi_highlight

RECURSIVE merge_loop(_, _, _, _, _)
merge_loop(spans, k, current_start, current_end, merged) ==
    IF k > Len(spans)
    THEN Append(merged, <<current_start, current_end>>)
    ELSE LET s == spans[k][1]
             e == spans[k][2]
         IN  IF s <= current_end
             THEN merge_loop(spans, k + 1, current_start,
                             Max(current_end, e), merged)
             ELSE merge_loop(spans, k + 1, s, e,
                             Append(merged, <<current_start, current_end>>))

\* Mutant: no merging at all, every sorted span becomes a run.
merge_spans_none(spans) == SortedSpans(spans)

\* Mutant: only properly overlapping spans merge (s < current_end).
RECURSIVE merge_strict_loop(_, _, _, _, _)
merge_strict_loop(spans, k, current_start, current_end, merged) ==
    IF k > Len(spans)
    THEN Append(merged, <<current_start, current_end>>)
    ELSE LET s == spans[k][1]
             e == spans[k][2]
         IN  IF s < current_end
             THEN merge_strict_loop(spans, k + 1, current_start,
                                    Max(current_end, e), merged)
             ELSE merge_strict_loop(spans, k + 1, s, e,
                             Append(merged, <<current_start, current_end>>))

merge_spans_strict(spans) ==
    LET sorted == SortedSpans(spans)
    IN  merge_strict_loop(sorted, 2, sorted[1][1], sorted[1][2], <<>>)

\* The merged runs of a non-empty span list (lines 87-98).
merge_spans(spans) ==
    LET sorted == SortedSpans(spans)
    IN  merge_loop(sorted, 2, sorted[1][1], sorted[1][2], <<>>)

RESET == "ESC[0m"
color_code(highlight_mode) ==
    IF highlight_mode = "GREEN" THEN "ESC[1;92m" ELSE "ESC[43mESC[30m"

Markers == {RESET, color_code("GREEN"), color_code("DEFAULT")}

RECURSIVE build_loop(_, _, _, _, _, _)
build_loop(t, merged, k, pos, code, acc) ==
    IF k > Len(merged)
    THEN acc \o Slice(t, pos, Len(t))
    ELSE LET s == merged[k][1]
             e == merged[k][2]
         IN  build_loop(t, merged, k + 1, e, code,
                 acc \o Slice(t, pos, s) \o <<code>> \o Slice(t, s, e)
                     \o <<RESET>>)

ansi_highlight(t, spans, highlight_mode) ==
    IF spans = <<>> THEN t
    ELSE build_loop(t, merge_spans(spans), 1, 0,
                    color_code(highlight_mode), <<>>)

-----------------------------------------------------------------------------
\* Sonnet.search_for.  L is the heap of span lists; the result carries the
\* heap extended by the lists the call allocates.

\* Mutant: the line is matched without lowercasing it.
line_spans_case_sensitive(line_raw, q) == find_spans(line_raw, q)

\* spans = self.find_spans(line_raw.lower(), q)   (line 30)
line_spans(line_raw, q) == find_spans(Lower(line_raw), q)

RECURSIVE search_lines(_, _, _, _, _)
search_lines(L, lines_raw, q, idx, line_matches) ==
    IF idx > Len(lines_raw)
    THEN [lists |-> L, line_matches |-> line_matches]
    ELSE LET spans == line_spans(lines_raw[idx], q)
         IN  IF spans # <<>>
             THEN search_lines(Append(L, spans), lines_raw, q, idx + 1,
                      Append(line_matches,
                             [line_no |-> idx, text |-> lines_raw[idx],
                              spans |-> Len(L) + 1]))
             ELSE search_lines(L, lines_raw, q, idx + 1, line_matches)

RECURSIVE SumSpans(_, _)
SumSpans(L, line_matches) ==
    IF line_matches = <<>> THEN 0
    ELSE Len(L[line_matches[1].spans]) + SumSpans(L, Tail(line_matches))

search_for(L, self, query) ==
    LET q == Lower(query)
        title_spans == find_spans(Lower(self.title), q)
        L1 == Append(L, title_spans)
        r == search_lines(L1, self.lines, q, 1, <<>>)
        total == Len(title_spans) + SumSpans(r.lists, r.line_matches)
    IN  [lists |-> r.lists,
         res |-> [title |-> self.title, title_spans |-> Len(L) + 1,
                  line_matches |-> r.line_matches, matches |-> total]]

-----------------------------------------------------------------------------
\* SearchResult.combine_with

\* Mutant: the other result's count is not added.
combine_matches_self(self, other) == self.matches

\* combined.matches = self.matches + other.matches   (line 61)
combine_matches(self, other) == self.matches + other.matches

\* Mutant: the concatenated title spans are not sorted.
combine_title_spans_unsorted(L, self, other) ==
    L[self.title_spans] \o L[other.title_spans]

\* combined.title_spans = sorted(self.title_spans + other.title_spans)
combine_title_spans(L, self, other) ==
    SortedSpans(L[self.title_spans] \o L[other.title_spans])

\* A dict keyed by line_no, as the sequence of its values in insertion order.
DictHas(d, ln) == \E k \in DOMAIN d : d[k].line_no = ln
DictGet(d, ln) == d[CHOOSE k \in DOMAIN d : d[k].line_no = ln]
DictPut(d, lm) ==
    IF DictHas(d, lm.line_no)
    THEN [k \in DOMAIN d |-> IF d[k].line_no = lm.line_no THEN lm ELSE d[k]]
    ELSE Append(d, lm)

\* lines_by_no = {lm.line_no: lm for lm in combined.line_matches}
RECURSIVE DictFrom(_, _)
DictFrom(line_matches, d) ==
    IF line_matches = <<>> THEN d
    ELSE DictFrom(Tail(line_matches), DictPut(d, line_matches[1]))

\* for lm in other.line_matches: ...   (lines 67-73).  extend() mutates the
\* span list in the heap; lm.copy() makes a LineMatch sharing lm's span list.
RECURSIVE merge_lines(_, _, _, _)
merge_lines(L, lines_by_no, other_lines, k) ==
    IF k > Len(other_lines)
    THEN [lists |-> L, lines_by_no |-> lines_by_no]
    ELSE LET lm == other_lines[k]
             ln == lm.line_no
         IN  IF DictHas(lines_by_no, ln)
             THEN LET target == DictGet(lines_by_no, ln).spans
                  IN  merge_lines(
                          [L EXCEPT ![target] = L[target] \o L[lm.spans]],
                          lines_by_no, other_lines, k + 1)
             ELSE merge_lines(L,
                      DictPut(lines_by_no,
                              [line_no |-> lm.line_no, text |-> lm.text,
                               spans |-> lm.spans]),
                      other_lines, k + 1)

\* sorted(lines_by_no.values(), key=lambda lm: lm.line_no): stable.
RECURSIVE InsertByLineNo(_, _)
InsertByLineNo(sorted, x) ==
    IF sorted = <<>> THEN <<x>>
    ELSE IF x.line_no < sorted[Len(sorted)].line_no
         THEN Append(InsertByLineNo(SubSeq(sorted, 1, Len(sorted) - 1), x),
                     sorted[Len(sorted)])
         ELSE Append(sorted, x)

RECURSIVE SortedByLineNo(_)
SortedByLineNo(s) ==
    IF s = <<>> THEN <<>>
    ELSE InsertByLineNo(SortedByLineNo(SubSeq(s, 1, Len(s) - 1)), s[Len(s)])

combine_with(L, self, other) ==
    LET title_spans == combine_title_spans(L, self, other)
        L1 == Append(L, title_spans)
        r == merge_lines(L1, DictFrom(self.line_matches, <<>>),
                         other.line_matches, 1)
    IN  [lists |-> r.lists,
         res |-> [title |-> self.title, title_spans |-> Len(L) + 1,
                  line_matches |-> SortedByLineNo(r.lines_by_no),
                  matches |-> combine_matches(self, other)]]

-----------------------------------------------------------------------------
\* Observation of the heap: the value of a SearchResult with every span list
\* read through its reference.

DeepLines(L, line_matches) ==
    [k \in DOMAIN line_matches |->
        [line_no |-> line_matches[k].line_no, text |-> line_matches[k].text,
         spans |-> L[line_matches[k].spans]]]

Deep(L, r) ==
    [title |-> r.title, title_spans |-> L[r.title_spans],
     line_matches |-> DeepLines(L, r.line_matches), matches |-> r.matches]

RECURSIVE CountSpans(_)
CountSpans(deep_lines) ==
    IF deep_lines = <<>> THEN 0
    ELSE Len(deep_lines[1].spans) + CountSpans(Tail(deep_lines))

\* matches == len(title_spans) + sum(len(lm.spans) for lm in line_matches)
InvOK(v) == v.matches = Len(v.title_spans) + CountSpans(v.line_matches)

-----------------------------------------------------------------------------
\* Scenario for the pure functions: a text is drawn, then find_spans and
\* ansi_highlight are applied to it with drawn arguments.

PureChars == {"a", "b"}
Texts == SeqsUpTo(PureChars, MaxLen)
SpansIn(t) == {<<s, e>> : s \in 0..Len(t), e \in 0..Len(t)} \cap
              {p \in (0..MaxLen) \X (0..MaxLen) : p[1] <= p[2]}
HighlightModes == {"DEFAULT", "GREEN"}

NoCall == [kind |-> "none"]

IdleDriver ==
    /\ sonnets = <<>> /\ search_mode = "AND" /\ pc = "off" /\ words = <<>>
    /\ w = 1 /\ i = 1 /\ results = <<>> /\ combined_results = <<>>
    /\ matched = <<>> /\ indiv = <<>>
IdleHeap == objs = <<>> /\ lists = <<>> /\ call = NoCall
IdlePure == text = <<>> /\ arg = [fn |-> "none"] /\ out = <<>>

InitPure ==
    /\ IdleDriver /\ IdleHeap
    /\ text \in Texts
    /\ arg = [fn |-> "none"]
    /\ out = <<>>

FindSpans ==
    /\ arg.fn = "none"
    /\ \E pattern \in Texts :
        /\ arg' = [fn |-> "find_spans", pattern |-> pattern]
        /\ out' = find_spans(text, pattern)
        /\ UNCHANGED <<text, driverVars, heapVars>>

Highlight ==
    /\ arg.fn = "none"
    /\ \E spans \in SeqsUpTo(SpansIn(text), MaxSpans), m \in HighlightModes :
        /\ arg' = [fn |-> "ansi_highlight", spans |-> spans, mode |-> m]
        /\ out' = ansi_highlight(text, spans, m)
        /\ UNCHANGED <<text, driverVars, heapVars>>

NextPure == FindSpans \/ Highlight
SpecPure == InitPure /\ [][NextPure]_vars

-----------------------------------------------------------------------------
\* Library scenario: one document is drawn; search_for is applied to it with
\* drawn queries and combine_with to any two results obtained so far (so a
\* result may be combined with itself or with a result it shares lists with).

TitlePool == {<<"A", "b">>, <<"b">>}
LinePool == {<<"a", "A">>, <<"b", "a">>, <<"B">>}
QueryPool == {<<>>, <<"A">>, <<"b">>, <<"a", "a">>}

Docs == {[title |-> t, lines |-> ls] :
            t \in TitlePool, ls \in SeqsUpTo(LinePool, MaxLines)}

InitLib ==
    /\ search_mode = "AND" /\ pc = "lib" /\ words = <<>>
    /\ w = 1 /\ i = 1 /\ results = <<>> /\ combined_results = <<>>
    /\ matched = <<>> /\ indiv = <<>>
    /\ sonnets \in {<<d>> : d \in Docs}
    /\ IdleHeap /\ IdlePure

LibSearch ==
    /\ pc = "lib"
    /\ Len(objs) < MaxObjs
    /\ \E query \in QueryPool :
        LET r == search_for(lists, sonnets[1], query)
        IN  /\ lists' = r.lists
            /\ objs' = Append(objs, r.res)
            /\ call' = [kind |-> "search_for", doc |-> sonnets[1],
                        query |-> query, ret |-> Len(objs) + 1]
    /\ UNCHANGED <<driverVars, pureVars>>

LibCombine ==
    /\ pc = "lib"
    /\ Len(objs) < MaxObjs
    /\ \E a \in DOMAIN objs, b \in DOMAIN objs :
        LET r == combine_with(lists, objs[a], objs[b])
        IN  /\ lists' = r.lists
            /\ objs' = Append(objs, r.res)
            /\ call' = [kind |-> "combine_with", a |-> a, b |-> b,
                        preA |-> Deep(lists, objs[a]),
                        preB |-> Deep(lists, objs[b]),
                        ret |-> Len(objs) + 1]
    /\ UNCHANGED <<driverVars, pureVars>>

NextLib == LibSearch \/ LibCombine
SpecLib == InitLib /\ [][NextLib]_vars

-----------------------------------------------------------------------------
\* The CLI (app.py main): the corpus and the configuration are loaded, then
\* each prompt either sets the search mode or evaluates a query, word by word
\* and, from the second word on, sonnet by sonnet.

DocPool ==
    {[title |-> <<"A", "b">>, lines |-> << <<"a", "A">>, <<"b", "a">> >>],
     [title |-> <<"b">>,      lines |-> << <<"B">> >>],
     [title |-> <<"a">>,      lines |-> << <<"a", "A">> >>]}
WordPool == {<<"A">>, <<"b">>}
SearchModes == {"AND", "OR"}

\* results = [s.search_for(word) for s in sonnets]   (line 116)
RECURSIVE search_all(_, _, _, _, _, _)
search_all(L, O, docs, word, k, ids) ==
    IF k > Len(docs) THEN [lists |-> L, objs |-> O, ids |-> ids]
    ELSE LET r == search_for(L, docs[k], word)
         IN  search_all(r.lists, Append(O, r.res), docs, word, k + 1,
                        Append(ids, Len(O) + 1))

\* Mutant: the AND test accepts a sonnet that matched on either side.
and_test_either(combined_result, result) ==
    combined_result.matches > 0 \/ result.matches > 0

\* if combined_result.matches > 0 and result.matches > 0   (line 129)
and_test(combined_result, result) ==
    combined_result.matches > 0 /\ result.matches > 0

\* Mutant: a sonnet that fails the AND test keeps its count.
zero_matches_keep(combined_result) == combined_result

\* combined_result.matches = 0   (line 134)
zero_matches(combined_result) == [combined_result EXCEPT !.matches = 0]

Init ==
    /\ sonnets \in SeqsUpTo(DocPool, MaxDocs)
    /\ search_mode \in SearchModes
    /\ pc = "prompt"
    /\ words = <<>> /\ w = 1 /\ i = 1
    /\ results = <<>> /\ combined_results = <<>>
    /\ matched = <<>> /\ indiv = <<>>
    /\ IdleHeap /\ IdlePure

\* ":search-mode AND|OR"   (lines 78-86)
SetSearchMode ==
    /\ pc = "prompt"
    /\ \E m \in SearchModes : search_mode' = m
    /\ UNCHANGED <<sonnets, pc, words, w, i, results, combined_results,
                   matched, indiv, heapVars, pureVars>>

\* A query is entered: words = raw.split(); combined_results = []
\* (lines 102-111).
StartQuery ==
    /\ pc = "prompt"
    /\ \E ws \in SeqsUpTo(WordPool, MaxWords) :
          /\ ws # <<>>
          /\ words' = ws
    /\ combined_results' = <<>>
    /\ w' = 1 /\ i' = 1
    /\ pc' = "word"
    /\ UNCHANGED <<sonnets, search_mode, results, matched, indiv, heapVars,
                   pureVars>>

\* One iteration of "for word in words" up to the inner loop (lines 113-120).
SearchWord ==
    /\ pc = "word"
    /\ w <= Len(words)
    /\ LET r == search_all(lists, objs, sonnets, words[w], 1, <<>>)
       IN  /\ lists' = r.lists
           /\ objs' = r.objs
           /\ results' = r.ids
           /\ indiv' = Append(indiv,
                  [k \in DOMAIN r.ids |-> r.objs[r.ids[k]].matches])
           /\ call' = [kind |-> "search_all"]
           /\ IF combined_results = <<>>
              THEN /\ combined_results' = r.ids
                   /\ w' = w + 1
                   /\ UNCHANGED <<pc, i>>
              ELSE /\ pc' = "fold"
                   /\ i' = 1
                   /\ UNCHANGED <<combined_results, w>>
    /\ UNCHANGED <<sonnets, search_mode, words, matched, pureVars>>

\* One iteration of "for i in range(len(combined_results))" (lines 123-136).
Fold ==
    /\ pc = "fold"
    /\ i <= Len(combined_results)
    /\ LET combined_result == objs[combined_results[i]]
           result == objs[results[i]]
           r == combine_with(lists, combined_result, result)
           combine ==
               /\ lists' = r.lists
               /\ objs' = Append(objs, r.res)
               /\ combined_results' =
                      [combined_results EXCEPT ![i] = Len(objs) + 1]
               /\ call' = [kind |-> "combine_with",
                           a |-> combined_results[i], b |-> results[i],
                           preA |-> Deep(lists, combined_result),
                           preB |-> Deep(lists, result),
                           ret |-> Len(objs) + 1]
       IN  IF search_mode = "AND"
           THEN IF and_test(combined_result, result)
                THEN combine
                ELSE /\ objs' = [objs EXCEPT ![combined_results[i]] =
                                     zero_matches(combined_result)]
                     /\ call' = [kind |-> "zero", a |-> combined_results[i]]
                     /\ UNCHANGED <<lists, combined_results>>
           ELSE IF search_mode = "OR"
                THEN combine
                ELSE /\ call' = NoCall
                     /\ UNCHANGED <<lists, objs, combined_results>>
    /\ IF i = Len(combined_results)
       THEN pc' = "word" /\ w' = w + 1 /\ i' = i
       ELSE pc' = "fold" /\ i' = i + 1 /\ w' = w
    /\ UNCHANGED <<sonnets, search_mode, words, results, matched, indiv,
                   pureVars>>

\* print_results: matched = [r for r in results if r.matches > 0]
\* (app.py lines 15-31, called at line 142); `matched` keeps the positions of
\* the displayed sonnets.  Back at the prompt the locals of the query (words,
\* results, combined_results and every object reachable from them only) are
\* dead: each is rebound (lines 102, 109, 116) before it is read again, so
\* they are reset here.
PrintResults ==
    /\ pc = "word"
    /\ w > Len(words)
    /\ matched' = SelectSeq([k \in DOMAIN combined_results |-> k],
                      LAMBDA k : objs[combined_results[k]].matches > 0)
    /\ pc' = "prompt"
    /\ words' = <<>> /\ w' = 1 /\ i' = 1
    /\ results' = <<>> /\ combined_results' = <<>> /\ indiv' = <<>>
    /\ objs' = <<>> /\ lists' = <<>> /\ call' = NoCall
    /\ UNCHANGED <<sonnets, search_mode, pureVars>>

Next == SetSearchMode \/ StartQuery \/ SearchWord \/ Fold \/ PrintResults
Spec == Init /\ [][Next]_vars

-----------------------------------------------------------------------------
\* Properties of the pure functions (checked under SpecPure).

\* The offsets at which pattern p occurs in text t, stated without the scan.
OccursAt(t, p, j) == \A m \in 1..Len(p) : t[j + m] = p[m]
Occurrences(t, p) ==
    {<<j, j + Len(p)>> : j \in {j \in 0..(Len(t) - Len(p)) : OccursAt(t, p, j)}}

\* C5: for a non-empty pattern find_spans returns exactly the spans
\* (i, i + len(pattern)) of all offsets where the pattern occurs, overlapping
\* ones included, each once, in strictly ascending order of start; for an empty
\* pattern or a pattern longer than the text it returns the empty sequence.
C5_FindSpansExact ==
    arg.fn = "find_spans" =>
        IF arg.pattern = <<>> \/ Len(arg.pattern) > Len(text)
        THEN out = <<>>
        ELSE /\ {out[k] : k \in DOMAIN out} = Occurrences(text, arg.pattern)
             /\ \A k \in 1..(Len(out) - 1) : out[k][1] < out[k + 1][1]

\* Two overlapping occurrences were reported.
C5_Witness ==
    /\ arg.fn = "find_spans"
    /\ Len(out) >= 2
    /\ out[2][1] < out[1][2]

IsMarker(x) == x \in Markers
StripMarkers(o) == SelectSeq(o, LAMBDA x : ~IsMarker(x))

\* C6: removing every inserted marker from ansi_highlight(text, spans, style)
\* yields text, for any spans within the text and either style; with empty
\* spans the output is text itself.
C6_RoundTrip ==
    arg.fn = "ansi_highlight" =>
        /\ StripMarkers(out) = text
        /\ (arg.spans = <<>> => out = text)

\* The highlighted ranges read back from an output: an opening marker starts a
\* range at the number of text characters seen so far, a reset marker ends it.
RECURSIVE ParseRuns(_, _, _, _, _)
ParseRuns(o, k, pos, open, runs) ==
    IF k > Len(o) THEN [runs |-> runs, ok |-> open = -1]
    ELSE IF o[k] = RESET
         THEN IF open = -1 THEN [runs |-> runs, ok |-> FALSE]
              ELSE ParseRuns(o, k + 1, pos, -1, Append(runs, <<open, pos>>))
         ELSE IF IsMarker(o[k])
              THEN IF open # -1 THEN [runs |-> runs, ok |-> FALSE]
                   ELSE ParseRuns(o, k + 1, pos, pos, runs)
              ELSE ParseRuns(o, k + 1, pos + 1, open, runs)

RunsOf(o) == ParseRuns(o, 1, 0, -1, <<>>)
Covered(spans) ==
    UNION {spans[k][1]..(spans[k][2] - 1) : k \in DOMAIN spans}

\* An overlapping pair of spans was merged.
C6_Witness ==
    /\ arg.fn = "ansi_highlight"
    /\ \E k, l \in DOMAIN arg.spans :
          /\ arg.spans[k][1] < arg.spans[l][1]
          /\ arg.spans[l][1] < arg.spans[k][2]
          /\ arg.spans[k][2] < arg.spans[l][2]
    /\ Len(RunsOf(out).runs) = 1
    /\ Len(out) = Len(text) + 2

\* C7: ansi_highlight wraps exactly the maximal merged runs of the input
\* spans: the highlighted ranges are ascending and non-touching (each start is
\* strictly greater than the previous end), they cover exactly the characters
\* the input spans cover, every input span lies inside one range (so adjacent
\* spans share one marker pair), and one opening and one reset marker bracket
\* each range, in the style's colour.
C7_MaximalRuns ==
    (arg.fn = "ansi_highlight" /\ arg.spans # <<>>) =>
        LET p == RunsOf(out)
            r == p.runs
        IN  /\ p.ok
            /\ Len(r) >= 1
            /\ \A k \in 1..(Len(r) - 1) : r[k][2] < r[k + 1][1]
            /\ \A k \in DOMAIN r : r[k][1] <= r[k][2]
            /\ Covered(r) = Covered(arg.spans)
            /\ \A k \in DOMAIN arg.spans : \E l \in DOMAIN r :
                  r[l][1] <= arg.spans[k][1] /\ arg.spans[k][2] <= r[l][2]
            /\ \A l \in DOMAIN r :
                  /\ \E k \in DOMAIN arg.spans : arg.spans[k][1] = r[l][1]
                  /\ \E k \in DOMAIN arg.spans : arg.spans[k][2] = r[l][2]
            /\ \A k \in DOMAIN out :
                  IsMarker(out[k]) => out[k] \in {RESET, color_code(arg.mode)}

\* Two adjacent non-empty spans were given and one marker pair brackets both.
C7_Witness ==
    /\ arg.fn = "ansi_highlight"
    /\ \E k, l \in DOMAIN arg.spans :
          /\ arg.spans[k][1] < arg.spans[k][2]
          /\ arg.spans[k][2] = arg.spans[l][1]
          /\ arg.spans[l][1] < arg.spans[l][2]
    /\ Len(RunsOf(out).runs) = 1
    /\ Len(SelectSeq(out, IsMarker)) = 2

-----------------------------------------------------------------------------
\* Properties of search_for and combine_with (checked under SpecLib).

Ret == Deep(lists, objs[call.ret])

\* C2: every SearchResult returned by search_for, and every SearchResult
\* returned by combine_with when both inputs satisfied the invariant before the
\* call, has matches = len(title_spans) + sum of len(lm.spans).
C2_CountInvariant ==
    /\ call.kind = "search_for" => InvOK(Ret)
    /\ (call.kind = "combine_with" /\ InvOK(call.preA) /\ InvOK(call.preB))
          => InvOK(Ret)

\* combine_with returned for two inputs that both match a common line.
C2_Witness ==
    /\ call.kind = "combine_with"
    /\ InvOK(call.preA) /\ InvOK(call.preB)
    /\ \E k \in DOMAIN call.preA.line_matches :
       \E l \in DOMAIN call.preB.line_matches :
          call.preA.line_matches[k].line_no = call.preB.line_matches[l].line_no
    /\ call.preA.title_spans # <<>>
    /\ Ret.matches > call.preA.matches

Count(seq, x) == Cardinality({k \in DOMAIN seq : seq[k] = x})
LineNos(lms) == {lms[k].line_no : k \in DOMAIN lms}
LineOf(lms, ln) == lms[CHOOSE k \in DOMAIN lms : lms[k].line_no = ln]

\* C8: combine_with(a, b) returns matches = a.matches + b.matches, title_spans
\* = the sorted concatenation of both title span lists (duplicates kept), and
\* exactly one LineMatch per line_no of a or b, in ascending line_no order: a
\* line of both keeps a's text and holds a's spans followed by b's spans, a
\* line of one side carries that side's text and spans.
C8_CombineResult ==
    call.kind = "combine_with" =>
        LET a == call.preA
            b == call.preB
            r == Ret
            cat == a.title_spans \o b.title_spans
        IN  /\ r.matches = a.matches + b.matches
            /\ Len(r.title_spans) = Len(cat)
            /\ \A k \in DOMAIN cat :
                  Count(r.title_spans, cat[k]) = Count(cat, cat[k])
            /\ \A k \in 1..(Len(r.title_spans) - 1) :
                  ~TupleLess(r.title_spans[k + 1], r.title_spans[k])
            /\ LineNos(r.line_matches) =
                  LineNos(a.line_matches) \cup LineNos(b.line_matches)
            /\ \A k \in 1..(Len(r.line_matches) - 1) :
                  r.line_matches[k].line_no < r.line_matches[k + 1].line_no
            /\ \A k \in DOMAIN r.line_matches :
                  LET lm == r.line_matches[k]
                      inA == lm.line_no \in LineNos(a.line_matches)
                      inB == lm.line_no \in LineNos(b.line_matches)
                  IN  IF inA /\ inB
                      THEN /\ lm.text = LineOf(a.line_matches, lm.line_no).text
                           /\ lm.spans =
                                LineOf(a.line_matches, lm.line_no).spans \o
                                LineOf(b.line_matches, lm.line_no).spans
                      ELSE IF inA
                           THEN lm = LineOf(a.line_matches, lm.line_no)
                           ELSE lm = LineOf(b.line_matches, lm.line_no)

\* combine_with returned for inputs with a common line, a line of a only, and
\* title spans that the concatenation leaves out of order.
C8_Witness ==
    /\ call.kind = "combine_with"
    /\ LineNos(call.preA.line_matches) \cap LineNos(call.preB.line_matches)
          # {}
    /\ LineNos(call.preB.line_matches) \ LineNos(call.preA.line_matches) # {}
    /\ call.preA.title_spans # <<>> /\ call.preB.title_spans # <<>>
    /\ TupleLess(call.preB.title_spans[1], call.preA.title_spans[1])

Contains(t, p) == \E j \in 0..(Len(t) - Len(p)) : OccursAt(t, p, j)
MatchingLines(doc, query) ==
    {n \in DOMAIN doc.lines : Contains(Lower(doc.lines[n]), Lower(query))}

LineMatchesExact(doc, lms, wanted) ==
    /\ LineNos(lms) = wanted
    /\ \A k \in 1..(Len(lms) - 1) : lms[k].line_no < lms[k + 1].line_no
    /\ \A k \in DOMAIN lms :
          /\ lms[k].text = doc.lines[lms[k].line_no]
          /\ lms[k].spans # <<>>

\* C9 as stated: search_for returns exactly one LineMatch for each line whose
\* lowercased text contains the lowercased query, none for any other line,
\* each with the 1-based index, the original-case text and a non-empty span
\* list, in ascending line_no order, and leaves the document unchanged.
C9_AsStated ==
    call.kind = "search_for" =>
        /\ LineMatchesExact(call.doc, Ret.line_matches,
                            MatchingLines(call.doc, call.query))
        /\ sonnets[1] = call.doc

\* C9 amended: the above for a non-empty query; for the empty query (which
\* every line contains) search_for returns no LineMatch at all.
C9_NonEmptyQuery ==
    call.kind = "search_for" =>
        /\ LineMatchesExact(call.doc, Ret.line_matches,
               IF call.query = <<>> THEN {}
               ELSE MatchingLines(call.doc, call.query))
        /\ sonnets[1] = call.doc

\* search_for matched a mixed-case line with a mixed-case query and skipped
\* another line.
C9_Witness ==
    /\ call.kind = "search_for"
    /\ call.query # <<>> /\ Lower(call.query) # call.query
    /\ Len(call.doc.lines) > Len(Ret.line_matches)
    /\ \E k \in DOMAIN Ret.line_matches :
          Lower(Ret.line_matches[k].text) # Ret.line_matches[k].text

-----------------------------------------------------------------------------
\* Properties of the query evaluation (checked under Spec).

Cum(k) == objs[combined_results[k]]
WordsFolded == pc = "word" /\ indiv # <<>>

\* C1: after all words (of any prefix of the query) are folded, under AND mode
\* a sonnet's cumulative result has matches > 0 iff search_for returned
\* matches > 0 for every word, under OR mode iff it did for at least one word.
C1_FoldIff ==
    WordsFolded =>
        \A k \in DOMAIN combined_results :
            /\ search_mode = "AND" =>
                  (Cum(k).matches > 0 <=>
                      \A j \in DOMAIN indiv : indiv[j][k] > 0)
            /\ search_mode = "OR" =>
                  (Cum(k).matches > 0 <=>
                      \E j \in DOMAIN indiv : indiv[j][k] > 0)

\* An AND query of several words is done: one sonnet matched every word,
\* another matched some word but not all.
C1_Witness ==
    /\ pc = "word" /\ w > Len(words) /\ Len(words) >= 2
    /\ search_mode = "AND"
    /\ \E k \in DOMAIN combined_results : Cum(k).matches > 0
    /\ \E k \in DOMAIN combined_results :
          /\ Cum(k).matches = 0
          /\ \E j \in DOMAIN indiv : indiv[j][k] > 0

\* C3: combine_with(a, b) does not mutate its inputs: after the call a and b
\* have the same matches, title_spans and LineMatch spans as before it.
C3_InputsUnchanged ==
    call.kind = "combine_with" =>
        /\ Deep(lists, objs[call.a]) = call.preA
        /\ Deep(lists, objs[call.b]) = call.preB

\* C4: after every fold step every cumulative result satisfies
\* matches = len(title_spans) + sum(len(lm.spans)), and a sonnet that has just
\* failed the AND test has matches = 0 with title_spans and line_matches reset
\* to empty.
C4_ResetOnFail ==
    /\ \A k \in DOMAIN combined_results : InvOK(Deep(lists, Cum(k)))
    /\ call.kind = "zero" =>
          LET v == Deep(lists, objs[call.a])
          IN  v.matches = 0 /\ v.title_spans = <<>> /\ v.line_matches = <<>>

\* C10: under AND mode, within one query, a sonnet whose cumulative matches is
\* 0 keeps matches = 0 through every later step, and the fold step for that
\* sonnet allocates no new SearchResult (combine_with is not called).
C10_NoResurrection ==
    [][(search_mode = "AND" /\ pc \in {"word", "fold"}
            /\ pc' \in {"word", "fold"})
        => \A k \in DOMAIN combined_results :
              Cum(k).matches = 0 =>
                  /\ k \in DOMAIN combined_results'
                  /\ objs'[combined_results'[k]].matches = 0
                  /\ (pc = "fold" /\ i = k) =>
                        (objs' = objs /\ lists' = lists)
      ]_vars

\* An AND query of three words is done for a sonnet that matched the first
\* word, failed the second and would have matched the third.
C10_Witness ==
    /\ pc = "word" /\ w > Len(words) /\ Len(words) >= 3
    /\ search_mode = "AND"
    /\ \E k \in DOMAIN combined_results :
          /\ indiv[1][k] > 0 /\ indiv[2][k] = 0 /\ indiv[3][k] > 0
          /\ Cum(k).matches = 0

====
